---- MODULE Spec2Model ----
(***************************************************************************)
(* A model of beaker-ts' ApplicationClient (application_client.ts): the    *)
(* client object's fields, and every lifecycle operation as a sequence of  *)
(* steps separated by the network round trips the code awaits.  Where the  *)
(* sources hold two revisions of the file, the model follows the later     *)
(* one, which declares TransactionOverrides and tests the signer.          *)
(*                                                                         *)
(* Conventions.  `undefined` of a string-valued field is the string        *)
(* "undefined"; `undefined` of a number is UndefinedNum; an optional       *)
(* structured value is a sequence of length 0 (absent) or 1 (present).     *)
(* The network (algod behind algosdk) is the environment: each response is *)
(* a nondeterministic choice among the answers a node can give.            *)
(***************************************************************************)
EXTENDS Integers, Sequences, FiniteSets, TLC

\* ------------------------------------------------------------------ bounds
MaxInvocations == 2    \* lifecycle invocations started in one behaviour
MaxAppIndex    == 2    \* largest application index the network hands out
MaxPc          == 1    \* largest program counter in a logic failure message
MaxConcurrent  == 2    \* invocations in flight at once on one client
MaxWallets     == 2    \* SessionWallet objects alive at once
MaxWalletOps   == 3    \* SessionWallet operations in one behaviour
MaxAcctIdx     == 1    \* largest account index given to setAcctIdx
MaxFormals     == 2    \* most formal arguments of a method given to ProcessArgs
MaxDeclared    == 2    \* most declared entries of a schema given to getStateSchema
MaxReserved    == 1    \* most reserved entries of such a schema
MaxKeys        == 3    \* largest max_keys of a reserved entry
MaxRecords     == 2    \* most records of a state given to decodeState
MaxUint        == 2    \* largest uint value of a state record

\* --------------------------------------------------------------- constants
\* a wait bound one round too long
WAIT_ROUNDS_Five == 4 + 1

\* the second argument of every atc.execute(this.client, 4)
WAIT_ROUNDS == 4

Undefined    == "undefined"
UndefinedNum == -1
None         == <<>>
Some(v)      == <<v>>

VARIABLES
  appId,                  \* this.appId
  appAddress,             \* this.appAddress
  approvalProgram,        \* this.approvalProgram (base64 source)
  clearProgram,           \* this.clearProgram
  approvalProgramBinary,  \* this.approvalProgramBinary
  clearProgramBinary,     \* this.clearProgramBinary
  approvalProgramMap,     \* this.approvalProgramMap
  clearProgramMap,        \* this.clearProgramMap
  appSchema,              \* this.appSchema
  acctSchema,             \* this.acctSchema
  signer,                 \* this.signer
  sender,                 \* this.sender
  optsAppId,              \* opts.appId, as given to the constructor
  inv,                    \* the invocations in flight, one record per caller
  started,                \* number of invocations started so far
  atc,                    \* the caller's AtomicTransactionComposer
  compileRequests,        \* compile requests the network received, by program
  cacheWrites,            \* assignments to the cached binaries, by program
  sessionStorage,         \* the browser's sessionStorage: key -> text
  ImplementedWallets,     \* the registry: wallet name -> wallet type
  sw,                     \* the SessionWallet objects
  walletRet,              \* the last call of a static accessor and its result
  walletOps,              \* number of SessionWallet operations so far
  pin,                    \* the input a function of the library is applied to
  pout                    \* its result

idVars    == <<appId, appAddress>>
cacheVars == <<approvalProgramBinary, clearProgramBinary,
               approvalProgramMap, clearProgramMap>>
cfgVars   == <<approvalProgram, clearProgram, appSchema, acctSchema,
               signer, sender, optsAppId>>
vars      == <<appId, appAddress, approvalProgram, clearProgram,
               approvalProgramBinary, clearProgramBinary, approvalProgramMap,
               clearProgramMap, appSchema, acctSchema, signer, sender,
               optsAppId, inv, started, atc, compileRequests, cacheWrites,
               sessionStorage, ImplementedWallets, sw, walletRet, walletOps,
               pin, pout>>
walletVars == <<sessionStorage, ImplementedWallets, sw, walletRet, walletOps>>
logVars   == <<compileRequests, cacheWrites>>
pureVars  == <<pin, pout>>

\* no compile request and no cache write yet
NoCompiles == [approval |-> 0, clear |-> 0]

\* ----------------------------------------------------------------- values
\* A Schema: the declared entries' types and the reserved entries' type and
\* max_keys (appspec.ts Schema); key names play no part in the counts.
AppSchemaValue  == [declared |-> <<"uint64", "bytes">>,
                    reserved |-> <<[type |-> "bytes", max_keys |-> 3]>>]
AcctSchemaValue == [declared |-> <<"uint64">>, reserved |-> <<>>]

\* The caller's TransactionOverrides (Partial<TransactionParams>): each field
\* is absent or carries the caller's value.  `undefined` overrides behave as
\* the empty object in every use the code makes of them (a spread and the
\* test of getSuggestedParams).
OverrideFields == {"from", "note", "suggestedParams"}
NoOverrides    == [from |-> None, note |-> None, suggestedParams |-> None]
TxParamsChoices ==
  { NoOverrides,
    [from |-> None,            note |-> Some("callerNote"), suggestedParams |-> None],
    [from |-> None,            note |-> None,               suggestedParams |-> Some("spCaller")],
    [from |-> Some("OTHER"),   note |-> Some("callerNote"), suggestedParams |-> Some("spCaller")] }

\* getStateSchema(s): one slot per declared entry of a type, max_keys slots per
\* reserved entry of a type.
RECURSIVE CountDeclared(_, _)
CountDeclared(declared, type) ==
  IF declared = <<>> THEN 0
  ELSE (IF Head(declared) = type THEN 1 ELSE 0)
       + CountDeclared(Tail(declared), type)

\* a count of the reserved entries that forgets their max_keys
RECURSIVE CountReservedEntries(_, _)
CountReservedEntries(reserved, type) ==
  IF reserved = <<>> THEN 0
  ELSE (IF Head(reserved).type = type THEN 1 ELSE 0)
       + CountReservedEntries(Tail(reserved), type)

RECURSIVE CountReserved(_, _)
CountReserved(reserved, type) ==
  IF reserved = <<>> THEN 0
  ELSE (IF Head(reserved).type = type THEN Head(reserved).max_keys ELSE 0)
       + CountReserved(Tail(reserved), type)

getStateSchema(s) ==
  [uints |-> CountDeclared(s.declared, "uint64") + CountReserved(s.reserved, "uint64"),
   bytes |-> CountDeclared(s.declared, "bytes") + CountReserved(s.reserved, "bytes")]

\* algosdk.getApplicationAddress: the checksummed hash of "appID" and the
\* 8 byte id; a different address for every id.  It rejects a value that is
\* not a non-negative integer (encodeUint64 throws), `undefined` included.
getApplicationAddress(id) == "APP" \o ToString(id)

\* Buffer.from(program, "base64").toString(): the TEAL text of a program.
Base64Decode(b64) ==
  CASE b64 = "approval.b64" -> "approval.teal"
    [] b64 = "clear.b64"    -> "clear.teal"

\* The node's answer to compile(program).sourcemap(true): result (base64 of
\* the bytecode) and sourcemap, as compile() turns them into [binary, map].
CompileResult(teal) ==
  CASE teal = "approval.teal" -> [bin |-> "approval.bin", map |-> "approval.map"]
    [] teal = "clear.teal"    -> [bin |-> "clear.bin",    map |-> "clear.map"]

\* ----------------------------------------------------------------- errors
\* An Error is its message, a sequence of text fragments.
Err(message) == [kind |-> "Error", message |-> message]

NoProgramError   == Err(<<"no approval or clear program defined">>)
NoBinaryError    == Err(<<"no approval or clear program binaries defined">>)
NoSignerError    == Err(<<"no signer defined">>)
NoAppSchemaError == Err(<<"No app schema defined">>)
NoAcctSchemaError == Err(<<"No account schema defined">>)
\* `No args passed, expected ${method.args}`: the array of argument objects
\* is joined into the text, each object as "[object Object]"
NoArgsError(formals) ==
  Err(<<"No args passed, expected">>
      \o [i \in DOMAIN formals |-> "[object Object]"])
MissingArgError(name) == Err(<<"Cant find required argument:", name>>)
NoStateError     == Err(<<"No global state found">>)
\* encodeUint64 inside getApplicationAddress, given `undefined`
BadAppIdError    == Err(<<"Input is not a 64-bit unsigned integer">>)

\* What the network can answer to a request it does not serve.
NetworkError     == Err(<<"Network request error">>)
\* A rejected group whose approval program failed at program counter pc.
LogicFailure(pc) == Err(<<"logic eval error:", "assert failed", "pc=", ToString(pc)>>)
\* algosdk waitForConfirmation giving up after waitRounds rounds.
TimeoutError(waitRounds) ==
  Err(<<"Transaction not confirmed after", ToString(waitRounds), "rounds">>)

SubmitErrors == {NetworkError} \cup {LogicFailure(pc) : pc \in 0..MaxPc}

\* Buffer.from / new algosdk.SourceMap in compile(), given an answer without
\* a usable result or sourcemap
MalformedResponseError == Err(<<"malformed compile response">>)
\* What a compile request can fail with: the request itself, the decoding of
\* its answer, or an error of the node whatever its text
CompileErrors == {NetworkError, MalformedResponseError, LogicFailure(MaxPc)}

\* parseInt of the digits of a program counter
ParseInt(digits) == CHOOSE n \in 0..MaxPc : ToString(n) = digits
IsNumber(digits) == \E n \in 0..MaxPc : ToString(n) = digits

\* parseLogicError(errMsg): the details of a message of the logic-failure
\* shape (a failure reason and a program counter), else no details: msg is
\* undefined.
parseLogicError(message) ==
  IF /\ Len(message) = 4
     /\ message[1] = "logic eval error:"
     /\ message[3] = "pc="
     /\ IsNumber(message[4])
  THEN [msg |-> Some(message[2]), pc |-> ParseInt(message[4])]
  ELSE [msg |-> None, pc |-> UndefinedNum]

\* source.split("\n") of a TEAL text
SplitLines(teal) ==
  CASE teal = "approval.teal" -> <<"#pragma version 8", "int 0", "assert">>
    [] teal = "clear.teal"    -> <<"#pragma version 8", "int 1">>

\* SourceMap.getLineForPc (lines are 0-based indices into the split source)
getLineForPc(map, pc) ==
  CASE map = "approval.map" -> IF pc = 0 THEN 1 ELSE 2
    [] map = "clear.map"    -> 1

\* new LogicError(led, program, map)
LogicError(led, program, map) ==
  [kind    |-> "LogicError",
   led     |-> led,
   line    |-> getLineForPc(map, led.pc),
   text    |-> program[getLineForPc(map, led.pc) + 1]]

\* wrapLogicError as it would be without the test for the program and map
wrapLogicErrorUnguarded(e) ==
  LET led == parseLogicError(e.message) IN
  IF led.msg # None
  THEN IF approvalProgram # Undefined /\ approvalProgramMap # Undefined
       THEN LogicError(led, SplitLines(Base64Decode(approvalProgram)),
                       approvalProgramMap)
       ELSE [kind |-> "LogicError", led |-> led, line |-> UndefinedNum,
             text |-> Undefined]
  ELSE e

\* wrapLogicError as it would be if the split source lost its first line
wrapLogicErrorShifted(e) ==
  IF approvalProgram = Undefined \/ approvalProgramMap = Undefined
  THEN e
  ELSE LET led == parseLogicError(e.message) IN
       IF led.msg # None
       THEN LogicError(led,
                       Tail(SplitLines(Base64Decode(approvalProgram))) \o <<"">>,
                       approvalProgramMap)
       ELSE e

\* ApplicationClient.wrapLogicError(e)
wrapLogicError(e) ==
  IF approvalProgram = Undefined \/ approvalProgramMap = Undefined
  THEN e
  ELSE LET led == parseLogicError(e.message) IN
       IF led.msg # None
       THEN LogicError(led, SplitLines(Base64Decode(approvalProgram)),
                       approvalProgramMap)
       ELSE e

\* ---- the state decoder (§4.2 of the specification) ----

\* the network's address byte length
AddressByteLength == 32

\* the base64 text of a byte sequence, as its sequence of 6-bit digits; 64 is
\* the padding character
RECURSIVE EncodeBase64(_)
EncodeBase64(b) ==
  IF Len(b) = 0 THEN <<>>
  ELSE IF Len(b) = 1
    THEN <<b[1] \div 4, (b[1] % 4) * 16, 64, 64>>
  ELSE IF Len(b) = 2
    THEN <<b[1] \div 4, (b[1] % 4) * 16 + b[2] \div 16, (b[2] % 16) * 4, 64>>
  ELSE <<b[1] \div 4, (b[1] % 4) * 16 + b[2] \div 16,
         (b[2] % 16) * 4 + b[3] \div 64, b[3] % 64>>
       \o EncodeBase64(SubSeq(b, 4, Len(b)))

\* the bytes of a base64 text
RECURSIVE DecodeBase64(_)
DecodeBase64(t) ==
  IF Len(t) < 4 THEN <<>>
  ELSE LET b1 == t[1] * 4 + t[2] \div 16
           b2 == (t[2] % 16) * 16 + t[3] \div 4
           b3 == (t[3] % 4) * 64 + t[4]
       IN (IF t[3] = 64 THEN <<b1>>
           ELSE IF t[4] = 64 THEN <<b1, b2>>
           ELSE <<b1, b2, b3>>)
          \o DecodeBase64(SubSeq(t, 5, Len(t)))

\* decoded values and keys: an integer, raw bytes, or the address string of
\* a public key; a key is the text of its bytes, or its raw bytes
UintValue(n)      == [tag |-> "uint", v |-> n]
BytesValue(b)     == [tag |-> "bytes", v |-> b]
AddressString(b)  == [tag |-> "address", v |-> b]
DisplayKey(b, raw) == [tag |-> IF raw THEN "raw" ELSE "utf8", v |-> b]

\* a value decoder that renders addresses even when raw is set
DecodeValueIgnoringRaw(value, raw) ==
  IF value.type = 1
    THEN LET b == DecodeBase64(value.bytes)
         IN IF Len(b) = AddressByteLength
              THEN AddressString(b) ELSE BytesValue(b)
    ELSE UintValue(value.uint)

DecodeValue(value, raw) ==
  IF value.type = 1
    THEN LET b == DecodeBase64(value.bytes)
         IN IF ~raw /\ Len(b) = AddressByteLength
              THEN AddressString(b) ELSE BytesValue(b)
    ELSE UintValue(value.uint)

\* the mapping from display key to decoded value; a later record of the same
\* key replaces an earlier one
RECURSIVE decodeState(_, _)
decodeState(state, raw) ==
  IF state = <<>> THEN <<>>
  ELSE LET n    == Len(state)
           rest == decodeState(SubSeq(state, 1, n - 1), raw)
           k    == DisplayKey(DecodeBase64(state[n].key), raw)
       IN [x \in DOMAIN rest \cup {k} |->
             IF x = k THEN DecodeValue(state[n].value, raw) ELSE rest[x]]

\* state records as the network encodes them
UintRecord(k, n)  ==
  [key |-> EncodeBase64(k), value |-> [type |-> 2, uint |-> n, bytes |-> <<>>]]
BytesRecord(k, b) ==
  [key |-> EncodeBase64(k),
   value |-> [type |-> 1, uint |-> 0, bytes |-> EncodeBase64(b)]]

\* ----------------------------------------------------------- transactions
LifecycleOps == {"create", "update", "delete", "optIn", "closeOut",
                 "clearState", "call"}
QueryOps     == {"getApplicationState", "getAccountState"}
ComposerOps  == {"addMethodCall"}
CompilingOps == {"create", "update"}

\* The ABI methods a caller passes to call(): their formal argument names.
MethodChoices == { <<>>, <<"x", "y">> }
\* A MethodArg: an ABI value, an algosdk.Transaction, or an object with its
\* member values in member order.
AbiValue(v)    == [tag |-> "abi", v |-> <<v>>]
TxnValue(t)    == [tag |-> "txn", v |-> <<t>>]
ObjectValue(m) == [tag |-> "object", v |-> m]

\* MethodArgs, an object from names to MethodArg: its entries in insertion
\* order, no name twice.
HasKey(args, name) == \E i \in DOMAIN args : args[i].name = name
Lookup(args, name) ==
  args[CHOOSE i \in DOMAIN args : args[i].name = name].value

\* The named arguments a caller passes: none, all of them, or y alone.
\* the address argument of getAccountState
AddressChoices == {Undefined, "OTHER"}

ArgsChoices ==
  { None,
    Some(<<[name |-> "y", value |-> AbiValue(2)],
           [name |-> "x", value |-> AbiValue(1)]>>),
    Some(<<[name |-> "y", value |-> AbiValue(2)]>>) }

\* The fields of the object handed to the algosdk make...TxnFromObject
\* function (or to atc.addMethodCall), absent unless the operation sets them.
EmptyTxn ==
  [from |-> None, suggestedParams |-> None, onComplete |-> None,
   appIndex |-> None, approvalProgram |-> None, clearProgram |-> None,
   numGlobalInts |-> None, numGlobalByteSlices |-> None,
   numLocalInts |-> None, numLocalByteSlices |-> None,
   note |-> None, methodArgs |-> None]

\* { ...base, ...txParams }: the fields txParams carries replace base's.
Spread(base, txParams) ==
  [f \in DOMAIN base |->
     IF f \in DOMAIN txParams /\ txParams[f] # None THEN txParams[f]
     ELSE base[f]]

\* program fields that take the two binaries the wrong way round
ProgramFieldsSwapped(base) ==
  [base EXCEPT !.approvalProgram = Some(clearProgramBinary),
               !.clearProgram = Some(approvalProgramBinary)]

\* approvalProgram: this.approvalProgramBinary,
\* clearProgram: this.clearProgramBinary, in the create and update objects
ProgramFields(base) ==
  [base EXCEPT !.approvalProgram = Some(approvalProgramBinary),
               !.clearProgram = Some(clearProgramBinary)]

\* getGlobalSchema() and getLocalSchema(), spread into the create object
SchemaFields(base) ==
  LET g == getStateSchema(appSchema[1])
      l == getStateSchema(acctSchema[1])
  IN [base EXCEPT !.numGlobalInts = Some(g.uints),
                  !.numGlobalByteSlices = Some(g.bytes),
                  !.numLocalInts = Some(l.uints),
                  !.numLocalByteSlices = Some(l.bytes)]

\* the body of the loop of addMethodCall, after the lookup: a transaction
\* is paired with the client's signer, an object (an array too) becomes the
\* array of its values, anything else is passed as it is
ProcessArg(arg) ==
  CASE arg.tag = "txn"    -> [tag |-> "txnWithSigner", v |-> <<arg.v[1], signer>>]
    [] arg.tag = "object" -> [tag |-> "array", v |-> arg.v]
    [] OTHER              -> arg

\* a loop over the provided mapping instead of the method's arguments
RECURSIVE ProcessArgsByKeys(_, _, _)
ProcessArgsByKeys(formals, args, processedArgs) ==
  IF args = None \/ args = Some(<<>>)
  THEN [ok |-> TRUE, value |-> processedArgs, error |-> None]
  ELSE ProcessArgsByKeys(formals, Some(Tail(args[1])),
         IF \E i \in DOMAIN formals : formals[i] = Head(args[1]).name
         THEN Append(processedArgs, ProcessArg(Head(args[1]).value))
         ELSE processedArgs)

\* the for loop of addMethodCall over method.args: the processed arguments,
\* or the error of the first formal argument that is not provided
RECURSIVE ProcessArgs(_, _, _)
ProcessArgs(formals, args, processedArgs) ==
  IF formals = <<>> THEN [ok |-> TRUE, value |-> processedArgs, error |-> None]
  ELSE IF args = None
       THEN [ok |-> FALSE, value |-> <<>>, error |-> Some(NoArgsError(formals))]
  ELSE IF ~HasKey(args[1], Head(formals))
       THEN [ok |-> FALSE, value |-> <<>>,
             error |-> Some(MissingArgError(Head(formals)))]
  ELSE ProcessArgs(Tail(formals), args,
                   Append(processedArgs,
                          ProcessArg(Lookup(args[1], Head(formals)))))

\* clearState: the object handed to makeApplicationClearStateTxnFromObject
ClearStateTxn(sp, txParams) ==
  [EmptyTxn EXCEPT !.from = Some(sender),
                   !.suggestedParams = Some(sp),
                   !.onComplete = Some("ClearStateOC"),
                   !.appIndex = Some(appId)]

\* The transaction object an operation builds from the client's fields, the
\* suggested parameters sp and the caller's overrides.
BuildTxn(op, sp, txParams, processedArgs) ==
  LET base == [EmptyTxn EXCEPT !.from = Some(sender),
                               !.suggestedParams = Some(sp)]
  IN CASE op = "create" ->
            Spread(SchemaFields(
                     ProgramFields([base EXCEPT !.onComplete = Some("NoOpOC")])),
                   txParams)
       [] op = "update" ->
            Spread(ProgramFields(
                     [base EXCEPT !.onComplete = Some("UpdateApplicationOC"),
                                  !.appIndex = Some(appId)]), txParams)
       [] op = "delete" ->
            Spread([base EXCEPT !.onComplete = Some("DeleteApplicationOC"),
                                !.appIndex = Some(appId)], txParams)
       [] op = "optIn" ->
            Spread([base EXCEPT !.onComplete = Some("OptInOC"),
                                !.appIndex = Some(appId)], txParams)
       [] op = "closeOut" ->
            Spread([base EXCEPT !.onComplete = Some("CloseOutOC"),
                                !.appIndex = Some(appId)], txParams)
       [] op = "clearState" -> ClearStateTxn(sp, txParams)
       [] op \in {"call", "addMethodCall"} ->
            Spread([base EXCEPT !.onComplete = Some("NoOpOC"),
                                !.appIndex = Some(appId),
                                !.methodArgs = Some(processedArgs)], txParams)

\* The error building the transaction object raises, if any: create reads the
\* two schemas, call processes the named arguments.
BuildError(op, method, args) ==
  CASE op = "create" /\ appSchema = None  -> Some(NoAppSchemaError)
    [] op = "create" /\ appSchema # None /\ acctSchema = None
                                          -> Some(NoAcctSchemaError)
    [] op \in {"call", "addMethodCall"} ->
         ProcessArgs(method, args, <<>>).error
    [] OTHER -> None

\* ------------------------------------------------------------ invocations
ZeroCalls == [compile |-> 0, params |-> 0, submit |-> 0, query |-> 0]

\* An invocation: the operation and its arguments, where it stands (pc), what
\* it has built and sent, and how it ended.
\*   calls     network requests this invocation has issued, by kind
\*   submitted the group handed to atc.execute: transaction, id, wait bound
\*   result    the value atc.execute returned
\*   txid      result.txIDs[0], as create reads it
\*   raised    the error raised inside the operation's try block
\*   thrown    the error the caller's promise is rejected with
\*   ret       the value the caller's promise is resolved with
IdleInv ==
  [op |-> "none", pc |-> "idle", id |-> 0, txParams |-> NoOverrides,
   method |-> <<>>, args |-> None, sp |-> Undefined,
   txn |-> None, submitted |-> None, calls |-> ZeroCalls, rounds |-> 0,
   result |-> None, txid |-> Undefined, txinfo |-> None, raised |-> None, outcome |-> "pending",
   address |-> Undefined, raw |-> FALSE, request |-> None, response |-> None,
   thrown |-> None, ret |-> None]

Procs == DOMAIN inv

\* the id of the transaction invocation r submits
TxID(r) == "TX" \o ToString(r.id)

\* throw e outside a try block: the caller's promise is rejected with e
Throw(r, e) == [r EXCEPT !.pc = "done", !.outcome = "rejected",
                         !.thrown = Some(e)]

\* return v
Return(r, v) == [r EXCEPT !.pc = "done", !.outcome = "resolved",
                          !.ret = Some(v)]

\* a catch block that submits the group again
CatchRetry(r, e) == [r EXCEPT !.pc = "execute"]

\* a catch block that swallows the error
CatchSwallow(r, e) == [r EXCEPT !.pc = "done", !.outcome = "resolved",
                                !.ret = Some([txIDs |-> <<>>])]

\* catch (e) { throw this.wrapLogicError(e as Error); }
Catch(r, e) == [r EXCEPT !.pc = "done", !.outcome = "rejected",
                         !.thrown = Some(wrapLogicError(e))]

\* the try block of r raises e
Raise(r, e) == [r EXCEPT !.raised = Some(e)]

\* the constructor's choice of appId
ConstructAppIdIgnored(given) == 0

ConstructAppId(given) ==
  IF given # UndefinedNum THEN given ELSE 0

ConstructAppAddress(given) ==
  IF given # UndefinedNum THEN getApplicationAddress(given) ELSE ""

\* no function of the library is being applied
NoInput == [fn |-> "none"]

\* --------------------------------------------------------- session wallet
\* const walletDataKey = (network) => `bkr-${network}-wallet-data`
walletDataKeyShared(network) == "bkr-wallet-data"

walletDataKey(network) == "bkr-" \o network \o "-wallet-data"

Networks == {"A", "B"}

\* enum WalletName and the registry as the module defines it
WalletName ==
  {"wallet-connect", "algo-signer", "my-algo-connect", "insecure-wallet",
   "kmd-wallet"}

WalletType(name) ==
  CASE name = "wallet-connect"  -> "WC"
    [] name = "algo-signer"     -> "AlgoSignerWallet"
    [] name = "my-algo-connect" -> "MyAlgoConnectWallet"
    [] name = "insecure-wallet" -> "InsecureWallet"
    [] name = "kmd-wallet"      -> "KMDWallet"

ImplementedWalletsValue == [name \in WalletName |-> WalletType(name)]

\* SessionWalletData: {walletPreference, data: {acctList, defaultAcctIdx}}
SessionWalletData(walletPreference, acctList, defaultAcctIdx) ==
  [walletPreference |-> walletPreference,
   data |-> [acctList |-> acctList, defaultAcctIdx |-> defaultAcctIdx]]

\* { data: { acctList: [], defaultAcctIdx: 0 } }
DefaultWalletData == SessionWalletData(Undefined, <<>>, 0)

\* the digits of a number of a stored text
ParseNumber(digits) == CHOOSE n \in 0..9 : ToString(n) = digits

\* JSON.stringify(data): the text, as its sequence of keys and values; a
\* property that is undefined is left out
Stringify(d) ==
  (IF d.walletPreference = Undefined THEN <<>>
   ELSE <<"walletPreference", d.walletPreference>>)
  \o <<"acctList", ToString(Len(d.data.acctList))>> \o d.data.acctList
  \o <<"defaultAcctIdx", ToString(d.data.defaultAcctIdx)>>

\* JSON.parse(text)
Parse(text) ==
  LET hasPreference == text[1] = "walletPreference"
      rest == IF hasPreference THEN SubSeq(text, 3, Len(text)) ELSE text
      n    == ParseNumber(rest[2])
  IN SessionWalletData(IF hasPreference THEN text[2] ELSE Undefined,
                       SubSeq(rest, 3, 2 + n),
                       ParseNumber(rest[4 + n]))

\* sessionStorage.getItem(key): the text, or null
getItem(storage, key) ==
  IF key \in DOMAIN storage THEN Some(storage[key]) ELSE None

\* sessionStorage.setItem(key, text)
setItem(storage, key, text) ==
  [k \in DOMAIN storage \cup {key} |-> IF k = key THEN text ELSE storage[k]]

\* static getWalletData(network), on a storage
getWalletData(storage, network) ==
  LET data == getItem(storage, walletDataKey(network))
  IN IF data = None \/ data = Some(<<>>) THEN DefaultWalletData
     ELSE Parse(data[1])

\* static setWalletData(network, data), on a storage
setWalletData(storage, network, data) ==
  setItem(storage, walletDataKey(network), Stringify(data))

\* no SessionWallet object in a slot; no static call made
NoWallet == [pc |-> "none"]
NoCall   == [op |-> "none"]

\* a page that has stored nothing, the registry as defined, no object
WalletInit ==
  /\ sessionStorage = [k \in {} |-> <<>>]
  /\ ImplementedWallets = ImplementedWalletsValue
  /\ sw = [w \in 1..MaxWallets |-> NoWallet]
  /\ walletRet = NoCall
  /\ walletOps = 0

\* ------------------------------------------------------------------- Init
\* new ApplicationClient({client, signer, sender, appId?}), followed by the
\* assignments a generated subclass makes to the programs and the schemas.
\* An existing application has a positive id.
Init ==
  /\ optsAppId \in {UndefinedNum} \cup 1..MaxAppIndex
  /\ appId = ConstructAppId(optsAppId)
  /\ appAddress = ConstructAppAddress(optsAppId)
  /\ approvalProgram \in {Undefined, "approval.b64"}
  /\ clearProgram \in {Undefined, "clear.b64"}
  /\ approvalProgramBinary = Undefined
  /\ clearProgramBinary = Undefined
  /\ approvalProgramMap = Undefined
  /\ clearProgramMap = Undefined
  /\ appSchema \in {None, Some(AppSchemaValue)}
  /\ acctSchema \in {None, Some(AcctSchemaValue)}
  /\ signer \in {Undefined, "signer"}
  /\ sender = "SENDER"
  /\ inv = [p \in {1} |-> IdleInv]
  /\ started = 0
  /\ atc = <<>>
  /\ compileRequests = NoCompiles
  /\ cacheWrites = NoCompiles
  /\ WalletInit
  /\ pin = NoInput
  /\ pout = None

Set(p, r) == inv' = [inv EXCEPT ![p] = r]

\* ---------------------------------------------------------------- actions
\* A caller invokes an operation; nothing of its body has run yet.
Invoke(p) ==
  /\ inv[p].pc = "idle"
  /\ started < MaxInvocations
  /\ \E op \in LifecycleOps \cup QueryOps \cup ComposerOps,
        txParams \in TxParamsChoices,
        method \in MethodChoices, args \in ArgsChoices,
        address \in AddressChoices, raw \in BOOLEAN :
       /\ op \notin {"call", "addMethodCall"} => method = <<>> /\ args = None
       /\ op \in QueryOps => txParams = NoOverrides
       /\ op # "getAccountState" => address = Undefined
       /\ op \notin QueryOps => raw = FALSE
       /\ Set(p, [IdleInv EXCEPT
                    !.op = op, !.id = started + 1, !.txParams = txParams,
                    !.method = method, !.args = args,
                    !.address = address, !.raw = raw,
                    !.pc = IF op \in CompilingOps THEN "ensurePrograms"
                           ELSE IF op \in QueryOps THEN "query"
                           ELSE "checkSigner"])
  /\ started' = started + 1
  /\ UNCHANGED <<idVars, cacheVars, cfgVars, atc, logVars, walletVars, pureVars>>

\* the requests the network has received once the invocation stands at r
Requested(r) ==
  CASE r.pc = "compileApproval" -> [compileRequests EXCEPT !.approval = @ + 1]
    [] r.pc = "compileClear"    -> [compileRequests EXCEPT !.clear = @ + 1]
    [] OTHER                    -> compileRequests

\* an ensurePrograms that starts over while either binary is missing
SendCompileBoth(r) ==
  IF approvalProgramBinary = Undefined \/ clearProgramBinary = Undefined
  THEN [r EXCEPT !.pc = "compileApproval", !.calls.compile = @ + 1]
  ELSE [r EXCEPT !.pc = "checkSigner"]

\* an ensurePrograms that compiles the approval program whatever is cached
SendCompileAlways(r) ==
  [r EXCEPT !.pc = "compileApproval", !.calls.compile = @ + 1]

\* the compile request ensurePrograms sends next, given the cache
SendCompile(r) ==
  IF approvalProgramBinary = Undefined
  THEN [r EXCEPT !.pc = "compileApproval", !.calls.compile = @ + 1]
  ELSE IF clearProgramBinary = Undefined
  THEN [r EXCEPT !.pc = "compileClear", !.calls.compile = @ + 1]
  ELSE [r EXCEPT !.pc = "checkSigner"]

\* ensurePrograms, up to its first await
EnsurePrograms(p) ==
  /\ inv[p].pc = "ensurePrograms"
  /\ IF approvalProgram = Undefined \/ clearProgram = Undefined
     THEN Set(p, Throw(inv[p], NoProgramError))
     ELSE Set(p, SendCompile(inv[p]))
  /\ compileRequests' = Requested(inv'[p])
  /\ UNCHANGED <<idVars, cacheVars, cfgVars, atc, cacheWrites, walletVars, pureVars, started>>

\* a compile failure that is handed to the catch block of the operation
CompileFailureWrapped(r, e) == Catch(Raise(r, e), e)

\* await this.ensurePrograms() stands outside every try block: a failure of
\* compile() rejects the caller's promise with the error itself
CompileFailure(r, e) == Throw(r, e)

\* the approval program's compile request is answered
CompileApprovalResponse(p) ==
  /\ inv[p].pc = "compileApproval"
  /\ \/ /\ \E e \in CompileErrors : Set(p, CompileFailure(inv[p], e))
        /\ UNCHANGED <<cacheVars, cacheWrites>>
     \/ LET c == CompileResult(Base64Decode(approvalProgram)) IN
        /\ approvalProgramBinary' = c.bin
        /\ approvalProgramMap' = c.map
        /\ cacheWrites' = [cacheWrites EXCEPT !.approval = @ + 1]
        /\ UNCHANGED <<clearProgramBinary, clearProgramMap>>
        /\ Set(p, IF clearProgramBinary = Undefined
                  THEN [inv[p] EXCEPT !.pc = "compileClear",
                                      !.calls.compile = @ + 1]
                  ELSE [inv[p] EXCEPT !.pc = "checkSigner"])
  /\ compileRequests' = Requested(inv'[p])
  /\ UNCHANGED <<idVars, cfgVars, atc, walletVars, pureVars, started>>

\* an answer for the clear program that is stored in the approval slot
CompileClearResponseWrongSlot(p) ==
  /\ inv[p].pc = "compileClear"
  /\ \/ /\ \E e \in CompileErrors : Set(p, CompileFailure(inv[p], e))
        /\ UNCHANGED <<cacheVars, cacheWrites>>
     \/ LET c == CompileResult(Base64Decode(clearProgram)) IN
        /\ approvalProgramBinary' = c.bin
        /\ clearProgramBinary' = c.bin
        /\ clearProgramMap' = c.map
        /\ cacheWrites' = [cacheWrites EXCEPT !.clear = @ + 1]
        /\ UNCHANGED approvalProgramMap
        /\ Set(p, [inv[p] EXCEPT !.pc = "checkSigner"])
  /\ UNCHANGED <<idVars, cfgVars, atc, compileRequests, walletVars, pureVars, started>>

\* the clear program's compile request is answered
CompileClearResponse(p) ==
  /\ inv[p].pc = "compileClear"
  /\ \/ /\ \E e \in CompileErrors : Set(p, CompileFailure(inv[p], e))
        /\ UNCHANGED <<cacheVars, cacheWrites>>
     \/ LET c == CompileResult(Base64Decode(clearProgram)) IN
        /\ clearProgramBinary' = c.bin
        /\ clearProgramMap' = c.map
        /\ cacheWrites' = [cacheWrites EXCEPT !.clear = @ + 1]
        /\ UNCHANGED <<approvalProgramBinary, approvalProgramMap>>
        /\ Set(p, [inv[p] EXCEPT !.pc = "checkSigner"])
  /\ UNCHANGED <<idVars, cfgVars, atc, compileRequests, walletVars, pureVars, started>>

\* a getSuggestedParams that asks the network whatever the caller gave
GetSuggestedParamsAlwaysFetch(r) ==
  [r EXCEPT !.pc = "params", !.calls.params = @ + 1]

\* getSuggestedParams(txParams), up to its await
GetSuggestedParams(r) ==
  IF r.txParams.suggestedParams # None
  THEN [r EXCEPT !.sp = r.txParams.suggestedParams[1], !.pc = "build"]
  ELSE [r EXCEPT !.pc = "params", !.calls.params = @ + 1]

\* the checks an operation makes before it asks for the parameters: create
\* and update test the two binaries, every operation tests the signer
CheckSigner(p) ==
  /\ inv[p].pc = "checkSigner"
  /\ IF /\ inv[p].op \in CompilingOps
        /\ (approvalProgramBinary = Undefined \/ clearProgramBinary = Undefined)
     THEN Set(p, Throw(inv[p], NoBinaryError))
     ELSE IF signer = Undefined
     THEN Set(p, Throw(inv[p], NoSignerError))
     ELSE Set(p, GetSuggestedParams(inv[p]))
  /\ UNCHANGED <<idVars, cacheVars, cfgVars, atc, logVars, walletVars, pureVars, started>>

\* client.getTransactionParams() is answered
ParamsResponse(p) ==
  /\ inv[p].pc = "params"
  /\ \/ Set(p, Throw(inv[p], NetworkError))
     \/ Set(p, [inv[p] EXCEPT !.sp = "spNetwork", !.pc = "build"])
  /\ UNCHANGED <<idVars, cacheVars, cfgVars, atc, logVars, walletVars, pureVars, started>>

\* a composer that puts the new method call first
PrependMethodCall(composer, methodCall) == <<methodCall>> \o composer

\* atc.addMethodCall({...}): the method call joins the composer's group
AddMethodCall(composer, methodCall) == Append(composer, methodCall)

\* an addMethodCall that puts the call into the composer before it looks at
\* the arguments
BuildAddsFirst(p) ==
  /\ inv[p].pc = "build"
  /\ LET r == inv[p]
         e == BuildError(r.op, r.method, r.args)
         t == BuildTxn(r.op, r.sp, r.txParams,
                       ProcessArgs(r.method, r.args, <<>>).value)
     IN IF r.op = "addMethodCall"
        THEN /\ atc' = AddMethodCall(atc, t)
             /\ IF e # None THEN Set(p, Throw(r, e[1]))
                ELSE Set(p, Return([r EXCEPT !.txn = Some(t)], atc'))
        ELSE IF e # None
        THEN Set(p, Throw(r, e[1])) /\ UNCHANGED atc
        ELSE /\ Set(p, [r EXCEPT !.txn = Some(t), !.pc = "execute"])
             /\ UNCHANGED atc
  /\ UNCHANGED <<idVars, cacheVars, cfgVars, logVars, walletVars, pureVars, started>>

\* the transaction object is built and added to a new composer; addMethodCall
\* adds it to the caller's composer and returns that composer
Build(p) ==
  /\ inv[p].pc = "build"
  /\ LET r == inv[p]
         e == BuildError(r.op, r.method, r.args)
         t == BuildTxn(r.op, r.sp, r.txParams,
                       ProcessArgs(r.method, r.args, <<>>).value)
     IN IF e # None
        THEN Set(p, Throw(r, e[1])) /\ UNCHANGED atc
        ELSE IF r.op = "addMethodCall"
        THEN /\ atc' = AddMethodCall(atc, t)
             /\ Set(p, Return([r EXCEPT !.txn = Some(t)], atc'))
        ELSE /\ Set(p, [r EXCEPT !.txn = Some(t), !.pc = "execute"])
             /\ UNCHANGED atc
  /\ UNCHANGED <<idVars, cacheVars, cfgVars, logVars, walletVars, pureVars, started>>

\* atc.execute(this.client, WAIT_ROUNDS), up to the answer to the submission:
\* the group is signed and sent; the node accepts it into its pool or
\* rejects it.
Execute(p) ==
  /\ inv[p].pc = "execute"
  /\ LET r == [inv[p] EXCEPT
                 !.calls.submit = @ + 1,
                 !.submitted = Some([txn |-> inv[p].txn[1], txID |-> TxID(inv[p]),
                                     waitRounds |-> WAIT_ROUNDS])]
     IN \/ Set(p, [r EXCEPT !.pc = "waiting", !.rounds = 0])
        \/ \E e \in SubmitErrors : Set(p, Catch(Raise(r, e), e))
  /\ UNCHANGED <<idVars, cacheVars, cfgVars, atc, logVars, walletVars, pureVars, started>>

\* waitForConfirmation: a round passes without the group being confirmed
NextRound(p) ==
  /\ inv[p].pc = "waiting"
  /\ inv[p].rounds < inv[p].submitted[1].waitRounds
  /\ Set(p, [inv[p] EXCEPT !.rounds = @ + 1])
  /\ UNCHANGED <<idVars, cacheVars, cfgVars, atc, logVars, walletVars, pureVars, started>>

\* waitForConfirmation: the wait bound has passed, execute throws
Timeout(p) ==
  /\ inv[p].pc = "waiting"
  /\ inv[p].rounds >= inv[p].submitted[1].waitRounds
  /\ LET e == TimeoutError(inv[p].submitted[1].waitRounds)
     IN Set(p, Catch(Raise(inv[p], e), e))
  /\ UNCHANGED <<idVars, cacheVars, cfgVars, atc, logVars, walletVars, pureVars, started>>

\* the result of execute: the ids of the group and, for a method call, its
\* method result, whose decoding may have failed
ExecuteResult(r, decoded) ==
  [txIDs |-> <<r.submitted[1].txID>>,
   methodResults |->
     IF r.op = "call"
     THEN <<[txID |-> r.submitted[1].txID,
             returnValue |-> IF decoded THEN Some("returned") ELSE None,
             decodeError |-> IF decoded THEN None
                             ELSE Some(Err(<<"decode error">>))]>>
     ELSE <<>>]

\* {} as algosdk.ABIResult
EmptyMethodResult ==
  [txID |-> Undefined, returnValue |-> None, decodeError |-> None]

\* a call that returns the empty result whatever execute returned
CallReturnEmpty(result) == EmptyMethodResult

\* call: result.methodResults[0] ? result.methodResults[0] : {}
CallReturn(result) ==
  IF Len(result.methodResults) > 0 THEN result.methodResults[1]
  ELSE EmptyMethodResult

\* new ABIResult(result, value), for a result whose txInfo has no inner
\* transactions
ABIResult(result, value) ==
  [txID |-> result.txID, returnValue |-> result.returnValue,
   decodeError |-> result.decodeError, inners |-> <<>>, value |-> value]

\* waitForConfirmation: the group is confirmed within the bound and execute
\* returns.  create goes on to ask for the confirmed record; call returns the
\* first method result; the others return the result of execute.  (execute
\* returns one id per transaction of the group, so create's test of an
\* undefined result.txIDs[0] never fires.)
Confirmed(p) ==
  /\ inv[p].pc = "waiting"
  /\ inv[p].rounds < inv[p].submitted[1].waitRounds
  /\ \E decoded \in BOOLEAN :
       LET r == inv[p]
           result == ExecuteResult(r, decoded)
           got == [r EXCEPT !.result = Some(result)]
       IN /\ r.op # "call" => decoded
          /\ Set(p, CASE r.op = "create" ->
                           [got EXCEPT !.pc = "txinfo", !.txid = result.txIDs[1],
                                       !.calls.query = @ + 1]
                      [] r.op = "call" -> Return(got, CallReturn(result))
                      [] OTHER -> Return(got, result))
  /\ UNCHANGED <<idVars, cacheVars, cfgVars, atc, logVars, walletVars, pureVars, started>>

\* txinfo["application-index"], as create assigns it to this.appId, were it
\* to be one too high
ApplicationIndexOffByOne(txinfo) == txinfo.applicationIndex + 1

\* txinfo["application-index"], as create assigns it to this.appId
ApplicationIndex(txinfo) == txinfo.applicationIndex

\* create: pendingTransactionInformation(txid) is answered, with a record
\* that carries the application index or does not, or with a failure.  A
\* node reports the index of a created application, a positive integer, and
\* leaves the field out of a record that has none, such as the record of a
\* transaction the answering node has not yet seen confirmed.
TxInfoResponse(p) ==
  /\ inv[p].pc = "txinfo"
  /\ \/ /\ Set(p, Catch(Raise(inv[p], NetworkError), NetworkError))
        /\ UNCHANGED idVars
     \/ \E index \in {UndefinedNum} \cup 1..MaxAppIndex :
          LET txinfo == [applicationIndex |-> index]
              r == [inv[p] EXCEPT !.txinfo = Some(txinfo)]
          IN /\ appId' = ApplicationIndex(txinfo)
             /\ IF appId' = UndefinedNum
                THEN /\ UNCHANGED appAddress
                     /\ Set(p, Catch(Raise(r, BadAppIdError), BadAppIdError))
                ELSE /\ appAddress' = getApplicationAddress(appId')
                     /\ Set(p, Return(r, [appId |-> appId',
                                          appAddress |-> appAddress',
                                          txID |-> r.txid]))
  /\ UNCHANGED <<cacheVars, cfgVars, atc, logVars, walletVars, pureVars, started>>

\* private getSender()
getSender == sender

\* a getAccountState that queries the address argument as given
QueryAddressGiven(address) == address

\* if (address === undefined) address = this.getSender()
QueryAddress(address) ==
  IF address = Undefined THEN getSender ELSE address

\* the request getApplicationState / getAccountState sends
StateRequest(r) ==
  IF r.op = "getApplicationState"
    THEN [endpoint |-> "getApplicationByID", address |-> Undefined,
          id |-> appId]
    ELSE [endpoint |-> "accountApplicationInformation",
          address |-> QueryAddress(r.address), id |-> appId]

\* the answers of the network: the nested field may be absent at either
\* level, or hold a record set
StateRecordSets ==
  { <<>>,
    <<UintRecord(<<107>>, 1),
      BytesRecord(<<103, 108>>, [i \in 1..AddressByteLength |-> i])>> }

NestedResponses == {None, Some(None)} \cup { Some(Some(st)) : st \in StateRecordSets }

StateResponses(op) ==
  IF op = "getApplicationState"
    THEN { [params |-> n] : n \in NestedResponses }
    ELSE { [appLocalState |-> n] : n \in NestedResponses }

\* the nested field of the answer that holds the record set
StateField(op, resp) ==
  IF op = "getApplicationState" THEN resp.params ELSE resp.appLocalState

\* the test of the answer and the decoding
StateResult(r, resp) ==
  LET f == StateField(r.op, resp) IN
  IF f = None \/ f[1] = None
    THEN Throw(r, NoStateError)
    ELSE Return(r, decodeState(f[1][1], r.raw))

\* getApplicationState / getAccountState: the request for the state is sent
QueryState(p) ==
  /\ inv[p].pc = "query"
  /\ Set(p, [inv[p] EXCEPT !.pc = "state", !.calls.query = @ + 1,
                           !.request = Some(StateRequest(inv[p]))])
  /\ UNCHANGED <<idVars, cacheVars, cfgVars, atc, logVars, walletVars, pureVars, started>>

\* getApplicationState / getAccountState: the request is answered, with a
\* failure, with a record that lacks the state, or with the state
StateResponse(p) ==
  /\ inv[p].pc = "state"
  /\ \/ Set(p, Throw(inv[p], NetworkError))
     \/ \E resp \in StateResponses(inv[p].op) :
          Set(p, StateResult([inv[p] EXCEPT !.response = Some(resp)], resp))
  /\ UNCHANGED <<idVars, cacheVars, cfgVars, atc, logVars, walletVars, pureVars, started>>

\* the caller has its answer and may invoke the next operation
Finish(p) ==
  /\ inv[p].pc = "done"
  /\ started < MaxInvocations
  /\ Set(p, IdleInv)
  /\ UNCHANGED <<idVars, cacheVars, cfgVars, atc, logVars, walletVars, pureVars, started>>

Next ==
  \/ \E p \in Procs : Invoke(p)
  \/ \E p \in Procs : EnsurePrograms(p)
  \/ \E p \in Procs : CompileApprovalResponse(p)
  \/ \E p \in Procs : CompileClearResponse(p)
  \/ \E p \in Procs : CheckSigner(p)
  \/ \E p \in Procs : ParamsResponse(p)
  \/ \E p \in Procs : Build(p)
  \/ \E p \in Procs : Execute(p)
  \/ \E p \in Procs : NextRound(p)
  \/ \E p \in Procs : Timeout(p)
  \/ \E p \in Procs : Confirmed(p)
  \/ \E p \in Procs : TxInfoResponse(p)
  \/ \E p \in Procs : QueryState(p)
  \/ \E p \in Procs : StateResponse(p)
  \/ \E p \in Procs : Finish(p)

Spec == Init /\ [][Next]_vars

\* ------------------------------------------------- functions of the library
\* The functions that compute a value from their arguments alone are applied
\* to inputs drawn from bounded sets, on a client that is at rest.
SeqsUpTo(S, n) == UNION { [1..k -> S] : k \in 0..n }

ArgNames == {"x", "y", "t", "o"}

\* what the caller provides under a name: numbers, a transaction, an object
ArgValueOf(name) ==
  CASE name = "x" -> AbiValue(1)
    [] name = "y" -> AbiValue(2)
    [] name = "t" -> TxnValue("payTxn")
    [] name = "o" -> ObjectValue(<<7, 8>>)

\* the methods: up to MaxFormals formal argument names
MethodInputs == SeqsUpTo(ArgNames, MaxFormals)

\* the provided mappings: none, or some of the names in some insertion order
ArgsInputs ==
  {None} \cup
  { Some([i \in DOMAIN f |-> [name |-> f[i], value |-> ArgValueOf(f[i])]]) :
      f \in { g \in SeqsUpTo(ArgNames, Cardinality(ArgNames)) :
                \A i, j \in DOMAIN g : g[i] = g[j] => i = j } }

ProcessArgsInputs ==
  { [fn |-> "processArgs", method |-> m, args |-> a] :
      m \in MethodInputs, a \in ArgsInputs }

\* the schemas: declared entries by type, reserved entries by type and
\* max_keys
AVMTypes == {"uint64", "bytes"}

SchemaInputs ==
  { [fn |-> "getStateSchema",
     schema |-> [declared |-> d, reserved |-> r]] :
      d \in SeqsUpTo(AVMTypes, MaxDeclared),
      r \in SeqsUpTo([type : AVMTypes, max_keys : 0..MaxKeys], MaxReserved) }

\* the byte values: short ones, and ones around the address length
ByteLengths == {0, 1, 2, AddressByteLength - 1, AddressByteLength,
                AddressByteLength + 1}
ByteValues  ==
  { [i \in 1..n |-> (b + 7 * i) % 256] : n \in ByteLengths, b \in {0, 250} }
KeyValues   == { <<107>>, <<103, 108>> }

StateRecords ==
  { UintRecord(k, n) : k \in KeyValues, n \in 0..MaxUint }
  \cup { BytesRecord(k, b) : k \in KeyValues, b \in ByteValues }

DecodeStateInputs ==
  { [fn |-> "decodeState", state |-> st, raw |-> raw] :
      st \in SeqsUpTo(StateRecords, MaxRecords), raw \in BOOLEAN }

PureInputs == ProcessArgsInputs \cup SchemaInputs \cup DecodeStateInputs

InitPure ==
  /\ optsAppId = UndefinedNum
  /\ appId = ConstructAppId(optsAppId)
  /\ appAddress = ConstructAppAddress(optsAppId)
  /\ approvalProgram = "approval.b64"
  /\ clearProgram = "clear.b64"
  /\ approvalProgramBinary = Undefined
  /\ clearProgramBinary = Undefined
  /\ approvalProgramMap = Undefined
  /\ clearProgramMap = Undefined
  /\ appSchema = Some(AppSchemaValue)
  /\ acctSchema = Some(AcctSchemaValue)
  /\ signer = "signer"
  /\ sender = "SENDER"
  /\ inv = [p \in {1} |-> IdleInv]
  /\ started = 0
  /\ atc = <<>>
  /\ compileRequests = NoCompiles
  /\ cacheWrites = NoCompiles
  /\ WalletInit
  /\ pin \in PureInputs
  /\ pout = None

clientVars == <<idVars, cacheVars, cfgVars, inv, started, atc, logVars,
                walletVars>>

\* the loop of addMethodCall runs over a method and a provided mapping
ApplyProcessArgs ==
  /\ pin.fn = "processArgs"
  /\ pout = None
  /\ pout' = Some(ProcessArgs(pin.method, pin.args, <<>>))
  /\ UNCHANGED <<clientVars, pin>>

\* getStateSchema is applied to a schema
ApplyGetStateSchema ==
  /\ pin.fn = "getStateSchema"
  /\ pout = None
  /\ pout' = Some(getStateSchema(pin.schema))
  /\ UNCHANGED <<clientVars, pin>>

\* decodeState is applied to a record set
ApplyDecodeState ==
  /\ pin.fn = "decodeState"
  /\ pout = None
  /\ pout' = Some(decodeState(pin.state, pin.raw))
  /\ UNCHANGED <<clientVars, pin>>

NextPure ==
  \/ ApplyProcessArgs
  \/ ApplyGetStateSchema
  \/ ApplyDecodeState

SpecPure == InitPure /\ [][NextPure]_vars

\* ---------------------------------------------- concurrent invocations
\* A client with both program sources and an empty cache, on which callers
\* start create and update without awaiting one another: each await of an
\* invocation is a point where the steps of another may run.
InitRace ==
  /\ optsAppId \in {UndefinedNum, 1}
  /\ appId = ConstructAppId(optsAppId)
  /\ appAddress = ConstructAppAddress(optsAppId)
  /\ approvalProgram = "approval.b64"
  /\ clearProgram = "clear.b64"
  /\ approvalProgramBinary = Undefined
  /\ clearProgramBinary = Undefined
  /\ approvalProgramMap = Undefined
  /\ clearProgramMap = Undefined
  /\ appSchema = Some(AppSchemaValue)
  /\ acctSchema = Some(AcctSchemaValue)
  /\ signer = "signer"
  /\ sender = "SENDER"
  /\ inv = [p \in 1..MaxConcurrent |-> IdleInv]
  /\ started = 0
  /\ atc = <<>>
  /\ compileRequests = NoCompiles
  /\ cacheWrites = NoCompiles
  /\ WalletInit
  /\ pin = NoInput
  /\ pout = None

\* a caller starts create or update
InvokeCompiling(p) ==
  /\ Invoke(p)
  /\ inv'[p].op \in CompilingOps
  /\ inv'[p].txParams = NoOverrides

NextRace ==
  \/ \E p \in Procs : InvokeCompiling(p)
  \/ \E p \in Procs : EnsurePrograms(p)
  \/ \E p \in Procs : CompileApprovalResponse(p)
  \/ \E p \in Procs : CompileClearResponse(p)
  \/ \E p \in Procs : CheckSigner(p)
  \/ \E p \in Procs : ParamsResponse(p)
  \/ \E p \in Procs : Build(p)
  \/ \E p \in Procs : Execute(p)
  \/ \E p \in Procs : NextRound(p)
  \/ \E p \in Procs : Timeout(p)
  \/ \E p \in Procs : Confirmed(p)
  \/ \E p \in Procs : TxInfoResponse(p)
  \/ \E p \in Procs : Finish(p)

SpecRace == InitRace /\ [][NextRace]_vars

\* ------------------------------------------------- session wallet: steps
\* what callers and the wallet adapters put in
Preferences  == {"algo-signer", "unknown-wallet", Undefined}
AccountLists == {<<"ACCT1">>, <<"ACCT1", "ACCT2">>}
DataChoices  ==
  { SessionWalletData(wp, <<>>, 0) : wp \in Preferences }
  \cup { SessionWalletData(wp, <<"ACCT1", "ACCT2">>, MaxAcctIdx) :
           wp \in Preferences }

appVars == <<idVars, cacheVars, cfgVars, inv, started, atc, logVars, pureVars>>

\* ImplementedWallets[data.walletPreference] ||= InsecureWallet: the registry
\* after the assignment, and the type the expression yields
RegistryAfter(registry, walletPreference) ==
  [name \in DOMAIN registry \cup {walletPreference} |->
     IF name \in DOMAIN registry THEN registry[name] ELSE "InsecureWallet"]

\* the operation that has just run: its name, its network and its object
Ran(op, network, w) == [op |-> op, network |-> network, w |-> w]

\* new SessionWallet(network, data) into the first free slot w
Construct(w, network, data) ==
  /\ sw[w] = NoWallet
  /\ \A v \in DOMAIN sw : v < w => sw[v] # NoWallet
  /\ ImplementedWallets' = RegistryAfter(ImplementedWallets, data.walletPreference)
  /\ sw' = [sw EXCEPT ![w] =
              [pc |-> "idle", network |-> network,
               walletPreference |-> data.walletPreference,
               wtype |-> ImplementedWallets'[data.walletPreference],
               accounts |-> data.data.acctList,
               defaultAccount |-> data.data.defaultAcctIdx]]

\* a caller constructs a SessionWallet from data of its own
NewSessionWallet(w) ==
  /\ walletOps < MaxWalletOps
  /\ \E network \in Networks, data \in DataChoices :
       /\ Construct(w, network, data)
       /\ walletRet' = Ran("new", network, w)
  /\ walletOps' = walletOps + 1
  /\ UNCHANGED <<appVars, sessionStorage>>

\* static fromSession(network)
FromSession(w) ==
  /\ walletOps < MaxWalletOps
  /\ \E network \in Networks :
       /\ Construct(w, network, getWalletData(sessionStorage, network))
       /\ walletRet' = Ran("fromSession", network, w)
  /\ walletOps' = walletOps + 1
  /\ UNCHANGED <<appVars, sessionStorage>>

\* a save() that stores the accounts and leaves the index at its default
SaveAccountsOnly(storage, o) ==
  setWalletData(storage, o.network,
                SessionWalletData(o.walletPreference, o.accounts, 0))

\* save(): the object's preference, accounts and index go to the storage
Save(storage, o) ==
  setWalletData(storage, o.network,
                SessionWalletData(o.walletPreference, o.accounts,
                                  o.defaultAccount))

\* wallet.disconnect(): the adapter may drop its accounts
AfterDisconnect(o) ==
  { [o EXCEPT !.pc = "idle", !.accounts = accts] : accts \in {o.accounts, <<>>} }

\* connect(), up to the await of wallet.connect()
Connect(w) ==
  /\ walletOps < MaxWalletOps
  /\ sw[w].pc = "idle"
  /\ sw' = [sw EXCEPT ![w].pc = "connecting"]
  /\ walletRet' = Ran("connect", sw[w].network, w)
  /\ walletOps' = walletOps + 1
  /\ UNCHANGED <<appVars, sessionStorage, ImplementedWallets>>

\* connect(): the adapter answers; with accounts the object is saved, with a
\* refusal it is disconnected and saved
ConnectResponse(w) ==
  /\ sw[w].pc = "connecting"
  /\ \E o \in { [sw[w] EXCEPT !.pc = "idle", !.accounts = accts] :
                  accts \in AccountLists } \cup AfterDisconnect(sw[w]) :
       /\ sw' = [sw EXCEPT ![w] = o]
       /\ sessionStorage' = Save(sessionStorage, o)
  /\ walletRet' = Ran("connected", sw[w].network, w)
  /\ UNCHANGED <<appVars, ImplementedWallets, walletOps>>

\* disconnect()
Disconnect(w) ==
  /\ walletOps < MaxWalletOps
  /\ sw[w].pc = "idle"
  /\ \E o \in AfterDisconnect(sw[w]) :
       /\ sw' = [sw EXCEPT ![w] = o]
       /\ sessionStorage' = Save(sessionStorage, o)
  /\ walletRet' = Ran("disconnect", sw[w].network, w)
  /\ walletOps' = walletOps + 1
  /\ UNCHANGED <<appVars, ImplementedWallets>>

\* setAcctIdx(idx)
SetAcctIdx(w) ==
  /\ walletOps < MaxWalletOps
  /\ sw[w].pc = "idle"
  /\ \E idx \in 0..MaxAcctIdx :
       LET o == [sw[w] EXCEPT !.defaultAccount = idx]
       IN /\ sw' = [sw EXCEPT ![w] = o]
          /\ sessionStorage' = Save(sessionStorage, o)
  /\ walletRet' = Ran("setAcctIdx", sw[w].network, w)
  /\ walletOps' = walletOps + 1
  /\ UNCHANGED <<appVars, ImplementedWallets>>

\* a caller stores data with the static setWalletData
SetWalletData ==
  /\ walletOps < MaxWalletOps
  /\ \E network \in Networks, data \in DataChoices :
       /\ sessionStorage' = setWalletData(sessionStorage, network, data)
       /\ walletRet' = [op |-> "set", network |-> network, data |-> data]
  /\ walletOps' = walletOps + 1
  /\ UNCHANGED <<appVars, ImplementedWallets, sw>>

\* a caller reads data with the static getWalletData
GetWalletData ==
  /\ walletOps < MaxWalletOps
  /\ \E network \in Networks :
       walletRet' = [op |-> "get", network |-> network,
                     data |-> getWalletData(sessionStorage, network)]
  /\ walletOps' = walletOps + 1
  /\ UNCHANGED <<appVars, sessionStorage, ImplementedWallets, sw>>

\* a page with a client at rest
InitWallet ==
  /\ optsAppId = UndefinedNum
  /\ appId = ConstructAppId(optsAppId)
  /\ appAddress = ConstructAppAddress(optsAppId)
  /\ approvalProgram = "approval.b64"
  /\ clearProgram = "clear.b64"
  /\ approvalProgramBinary = Undefined
  /\ clearProgramBinary = Undefined
  /\ approvalProgramMap = Undefined
  /\ clearProgramMap = Undefined
  /\ appSchema = Some(AppSchemaValue)
  /\ acctSchema = Some(AcctSchemaValue)
  /\ signer = "signer"
  /\ sender = "SENDER"
  /\ inv = [p \in {1} |-> IdleInv]
  /\ started = 0
  /\ atc = <<>>
  /\ compileRequests = NoCompiles
  /\ cacheWrites = NoCompiles
  /\ WalletInit
  /\ pin = NoInput
  /\ pout = None

NextWallet ==
  \/ \E w \in DOMAIN sw : NewSessionWallet(w)
  \/ \E w \in DOMAIN sw : FromSession(w)
  \/ \E w \in DOMAIN sw : Connect(w)
  \/ \E w \in DOMAIN sw : ConnectResponse(w)
  \/ \E w \in DOMAIN sw : Disconnect(w)
  \/ \E w \in DOMAIN sw : SetAcctIdx(w)
  \/ SetWalletData
  \/ GetWalletData

SpecWallet == InitWallet /\ [][NextWallet]_vars

TypeOK ==
  /\ appId \in {UndefinedNum} \cup 0..MaxAppIndex
  /\ started \in 0..MaxInvocations
  /\ \A p \in Procs : inv[p].rounds \in 0..WAIT_ROUNDS

\* ---------------------------------------------------------------- claims
Done(p)     == inv[p].pc = "done"
Resolved(p) == Done(p) /\ inv[p].outcome = "resolved"
Rejected(p) == Done(p) /\ inv[p].outcome = "rejected"

C2_Constructed ==
  started = 0 =>
    IF optsAppId # UndefinedNum
    THEN appId = optsAppId /\ appAddress = getApplicationAddress(optsAppId)
    ELSE appId = 0

C2_StaysZero ==
  optsAppId = UndefinedNum /\ appId = 0 /\ appId' # 0 =>
    \E p \in Procs : /\ inv'[p].op = "create"
                     /\ inv'[p].pc = "done"
                     /\ inv'[p].outcome = "resolved"

C2_ConstructorAndZeroUntilCreate ==
  [](C2_Constructed) /\ [][C2_StaysZero]_vars

\* C3: a lifecycle operation of a client without a signer fails with the
\* "no signer" error, and has issued no network request (compile, parameter
\* fetch, submission) when it does, whatever the client's state.  (Stated for
\* the clients that have both program sources, so that no other
\* configuration error competes.)
C3_NoSignerFailsBeforeNetwork ==
  \A p \in Procs :
    /\ inv[p].op \in LifecycleOps
    /\ signer = Undefined
    /\ approvalProgram # Undefined /\ clearProgram # Undefined
    =>
      /\ inv[p].calls = ZeroCalls
      /\ Done(p) => Rejected(p) /\ inv[p].thrown = Some(NoSignerError)

\* C4: create() of a client that lacks the application schema or the account
\* schema fails with a "no schema" error, and has issued no network request
\* when it does.  (The client has its signer and programs: no other
\* configuration error competes.)
C4_NoSchemaFailsBeforeNetwork ==
  \A p \in Procs :
    /\ inv[p].op = "create"
    /\ appSchema = None \/ acctSchema = None
    /\ signer # Undefined /\ approvalProgram # Undefined
    /\ clearProgram # Undefined
    => /\ inv[p].calls = ZeroCalls
       /\ Done(p) => /\ Rejected(p)
                     /\ inv[p].thrown \in {Some(NoAppSchemaError),
                                            Some(NoAcctSchemaError)}

\* C5: an id-dependent operation of a client whose application is not created
\* (appId = 0) fails without having issued a network request, and submits no
\* transaction with application index 0.
IdDependentOps == {"update", "delete", "optIn", "closeOut", "clearState",
                   "call", "getApplicationState", "getAccountState"}

C5_NotCreatedFailsBeforeNetwork ==
  \A p \in Procs :
    inv[p].op \in IdDependentOps /\ appId = 0 =>
      /\ inv[p].calls = ZeroCalls
      /\ inv[p].submitted # None =>
           inv[p].submitted[1].txn.appIndex # Some(0)
      /\ Done(p) => Rejected(p)

\* C6: every lifecycle operation submits its group with a confirmation wait
\* bound of exactly 4 rounds, never waits longer, and once 4 rounds have
\* passed without confirmation its next step is a failure returned to the
\* caller.
C6_BoundIsFour ==
  \A p \in Procs :
    /\ inv[p].rounds <= 4
    /\ inv[p].submitted # None => inv[p].submitted[1].waitRounds = 4
    /\ Resolved(p) /\ inv[p].op \in LifecycleOps =>
         inv[p].submitted # None /\ inv[p].rounds < 4

C6_TimeoutFails ==
  \A p \in Procs :
    inv[p].pc = "waiting" /\ inv[p].rounds = 4 /\ inv'[p] # inv[p] =>
      /\ inv'[p].pc = "done"
      /\ inv'[p].outcome = "rejected"
      /\ inv'[p].raised = Some(TimeoutError(4))

C6_WaitBoundedByFourRounds ==
  [](C6_BoundIsFour) /\ [][C6_TimeoutFails]_vars

C6_Witness ==
  \E p \in Procs :
    /\ Rejected(p)
    /\ inv[p].rounds = 4
    /\ inv[p].raised = Some(TimeoutError(4))

\* C7: one invocation submits its group at most once and sends no request
\* twice; an error, at submission, while waiting or at any other request,
\* ends the invocation in a failure.
C7_NoResubmission ==
  \A p \in Procs :
    /\ inv[p].calls.submit <= 1
    /\ inv[p].calls.params <= 1
    /\ inv[p].calls.query <= 1
    /\ inv[p].calls.compile <= 2
    /\ inv[p].raised # None \/ inv[p].thrown # None => Rejected(p)

C7_Witness ==
  \E p \in Procs :
    /\ Rejected(p)
    /\ inv[p].raised # None
    /\ inv[p].calls.submit = 1
    /\ inv[p].rounds = 0

\* C8: in every lifecycle operation, each field the caller supplies in the
\* overrides is in the built transaction with the caller's value.
C8_OverridesTakePrecedence ==
  \A p \in Procs :
    inv[p].op \in LifecycleOps /\ inv[p].txn # None =>
      \A f \in OverrideFields :
        inv[p].txParams[f] # None => inv[p].txn[1][f] = inv[p].txParams[f]

\* C9: an error raised while the group is submitted or its confirmation is
\* awaited reaches the caller as the result of wrapLogicError on it: the
\* LogicError built from it or the error itself; the operation does not
\* succeed.
IsLogicErrorOf(t, e) ==
  /\ t.kind = "LogicError"
  /\ parseLogicError(e.message).msg # None
  /\ t.led = parseLogicError(e.message)

C9_ErrorsPassThroughWrapLogicError ==
  \A p \in Procs :
    inv[p].raised # None =>
      /\ Rejected(p)
      /\ inv[p].thrown = Some(wrapLogicError(inv[p].raised[1]))
      /\ \/ inv[p].thrown = inv[p].raised
         \/ IsLogicErrorOf(inv[p].thrown[1], inv[p].raised[1])

C9_Witness ==
  \E p \in Procs :
    /\ Rejected(p)
    /\ inv[p].raised # None
    /\ IsLogicErrorOf(inv[p].thrown[1], inv[p].raised[1])

\* C10: wrapLogicError(e) returns e itself when the approval program source
\* or its source map is not available, or when e's message does not have the
\* logic-failure shape; it returns a LogicError only when both are available
\* and the message has the shape.
C10_WrapLogicErrorCases ==
  \A p \in Procs :
    inv[p].raised # None /\ inv[p].thrown # None =>
      LET e == inv[p].raised[1]
          t == inv[p].thrown[1]
      IN IF /\ approvalProgram # Undefined
            /\ approvalProgramMap # Undefined
            /\ parseLogicError(e.message).msg # None
         THEN t.kind = "LogicError"
         ELSE t = e

C10_Witness ==
  \E p \in Procs :
    /\ Rejected(p)
    /\ inv[p].raised \in {Some(LogicFailure(pc)) : pc \in 0..MaxPc}
    /\ approvalProgram # Undefined
    /\ approvalProgramMap = Undefined
    /\ inv[p].thrown = inv[p].raised

\* C11: for a failure message that references program counter N, and a
\* source map that resolves N to source line L, the LogicError the caller
\* gets reports line L and carries the text of line L of the approval
\* program.
C11_LogicErrorLineAndText ==
  \A p \in Procs :
    inv[p].thrown # None /\ inv[p].thrown[1].kind = "LogicError" =>
      \E N \in 0..MaxPc :
        /\ inv[p].raised = Some(LogicFailure(N))
        /\ LET L == getLineForPc(approvalProgramMap, N)
           IN /\ inv[p].thrown[1].line = L
              /\ inv[p].thrown[1].text =
                   SplitLines(Base64Decode(approvalProgram))[L + 1]

C11_Witness ==
  \E p \in Procs :
    /\ inv[p].raised = Some(LogicFailure(1))
    /\ inv[p].thrown # None
    /\ inv[p].thrown[1].kind = "LogicError"
    /\ inv[p].thrown[1].line = 2
    /\ inv[p].thrown[1].text = "assert"

\* a method call whose group was confirmed and whose first method result
\* reports a decode error
DecodeFailed(p) ==
  /\ inv[p].op = "call"
  /\ inv[p].result # None
  /\ inv[p].result[1].methodResults[1].decodeError # None

\* C12: when the group of a call() is confirmed and its first method result
\* reports a decode error, call() raises that decode error to the caller.
C12_CallRaisesDecodeError ==
  \A p \in Procs :
    DecodeFailed(p) /\ Done(p) =>
      /\ Rejected(p)
      /\ inv[p].thrown = inv[p].result[1].methodResults[1].decodeError

\* C13: when a method call is confirmed and the decoding of its return value
\* fails, the call does not abort: the caller gets a result that carries the
\* id of the confirmed transaction and the decode error, and so does the
\* ABIResult made of it.
C13_DecodeErrorAndTxIDObservable ==
  \A p \in Procs :
    DecodeFailed(p) =>
      /\ Resolved(p)
      /\ inv[p].thrown = None
      /\ inv[p].ret[1].txID = inv[p].submitted[1].txID
      /\ inv[p].ret[1].decodeError = Some(Err(<<"decode error">>))
      /\ ABIResult(inv[p].ret[1], None).txID = inv[p].submitted[1].txID
      /\ ABIResult(inv[p].ret[1], None).decodeError
           = Some(Err(<<"decode error">>))

C13_Witness ==
  \E p \in Procs :
    /\ DecodeFailed(p)
    /\ Resolved(p)
    /\ inv[p].ret[1].decodeError # None
    /\ inv[p].rounds = 2

\* the provided mapping has an entry for every formal argument of the method
AllProvided(method, args) ==
  /\ args # None
  /\ \A i \in DOMAIN method : HasKey(args[1], method[i])

\* two provided mappings with the same entries, in whatever order
SameEntries(a, b) ==
  /\ a # None /\ b # None
  /\ {a[1][i] : i \in DOMAIN a[1]} = {b[1][i] : i \in DOMAIN b[1]}

\* C14: for a method and a provided mapping that has all of the method's
\* formal argument names, the built argument sequence has one entry per
\* formal argument, in declaration order, made of the value provided under
\* that name; the order of the mapping's keys plays no part, and entries that
\* name no formal argument are left out.
C14_ArgsInDeclarationOrder ==
  pin.fn = "processArgs" /\ pout # None /\ AllProvided(pin.method, pin.args) =>
    /\ pout[1].ok
    /\ Len(pout[1].value) = Len(pin.method)
    /\ \A i \in DOMAIN pin.method :
         pout[1].value[i] = ProcessArg(ArgValueOf(pin.method[i]))
    /\ \A other \in ArgsInputs :
         SameEntries(other, pin.args) =>
           ProcessArgs(pin.method, other, <<>>) = pout[1]

C14_Witness ==
  /\ pin.fn = "processArgs"
  /\ pin.method = <<"x", "y">>
  /\ pin.args = Some(<<[name |-> "o", value |-> ArgValueOf("o")],
                       [name |-> "y", value |-> AbiValue(2)],
                       [name |-> "x", value |-> AbiValue(1)]>>)
  /\ pout # None
  /\ pout[1].value = <<AbiValue(1), AbiValue(2)>>

\* the formal arguments of p's method that the provided mapping lacks
MissingFormals(p) ==
  { inv[p].method[i] : i \in DOMAIN inv[p].method } \
  (IF inv[p].args = None THEN {}
   ELSE { inv[p].args[1][i].name : i \in DOMAIN inv[p].args[1] })

\* C15: when the provided mapping lacks a formal argument z of the method
\* (no mapping at all included), call fails with an error whose message
\* names a missing argument, and submits nothing.  (The failure is looked at
\* once the signer test and the parameters are behind.)
C15_MissingArgumentNamed ==
  \A p \in Procs :
    inv[p].op = "call" /\ MissingFormals(p) # {} =>
      /\ inv[p].calls.submit = 0
      /\ Done(p) /\ inv[p].sp # Undefined =>
           /\ Rejected(p)
           /\ \E z \in MissingFormals(p) :
                \E i \in DOMAIN inv[p].thrown[1].message :
                  inv[p].thrown[1].message[i] = z

\* the indices of the entries of a type
OfType(entries, type) == { i \in DOMAIN entries : entries[i].type = type }

\* the sum of max_keys over the reserved entries at the indices S
RECURSIVE SumMaxKeys(_, _)
SumMaxKeys(reserved, S) ==
  IF S = {} THEN 0
  ELSE LET i == CHOOSE j \in S : TRUE
       IN reserved[i].max_keys + SumMaxKeys(reserved, S \ {i})

LastOfKey(state, i) ==
  \A j \in DOMAIN state : j > i => state[j].key # state[i].key

\* C17: state decoding round-trips: a record encoding integer n as a uint
\* value decodes to n; a record encoding an address-length byte value as a
\* bytes value decodes, without raw, to that address's string form; and the
\* same record decoded with raw yields the original bytes.
C17_StateDecodeRoundTrip ==
  pin.fn = "decodeState" /\ pout # None =>
    \A i \in DOMAIN pin.state : \A k \in KeyValues :
      LastOfKey(pin.state, i) =>
        LET dk == DisplayKey(k, pin.raw) IN
        /\ \A n \in 0..MaxUint :
             pin.state[i] = UintRecord(k, n) =>
               dk \in DOMAIN pout[1] /\ pout[1][dk] = UintValue(n)
        /\ \A b \in ByteValues :
             pin.state[i] = BytesRecord(k, b) /\ Len(b) = AddressByteLength =>
               /\ dk \in DOMAIN pout[1]
               /\ ~pin.raw => pout[1][dk] = AddressString(b)
               /\ pin.raw => pout[1][dk] = BytesValue(b)

C17_Witness ==
  /\ pin.fn = "decodeState"
  /\ pin.raw
  /\ pout # None
  /\ \E b \in ByteValues :
       /\ Len(b) = AddressByteLength
       /\ pin.state = <<UintRecord(<<107>>, 2), BytesRecord(<<103, 108>>, b)>>
       /\ pout[1][DisplayKey(<<107>>, TRUE)] = UintValue(2)
       /\ pout[1][DisplayKey(<<103, 108>>, TRUE)] = BytesValue(b)

\* both binaries are cached
BothCached ==
  approvalProgramBinary # Undefined /\ clearProgramBinary # Undefined

\* C18: ensurePrograms (through create or update) with both binaries
\* already cached issues no compile request and leaves both binaries and
\* both source maps unchanged.
C18_EnsureProgramsIdempotent ==
  [][BothCached =>
       /\ \A p \in Procs : inv'[p].calls.compile <= inv[p].calls.compile
       /\ cacheVars' = cacheVars]_vars

C18_Witness ==
  /\ BothCached
  /\ \E p \in Procs :
       /\ inv[p].op \in CompilingOps
       /\ inv[p].pc \notin {"idle", "ensurePrograms"}
       /\ inv[p].calls.compile = 0

\* the nested record set of the answer is absent
LacksState(r) ==
  LET f == StateField(r.op, r.response[1]) IN f = None \/ f[1] = None

\* C19: getApplicationState fails with "no state found" when the answer
\* lacks params or params.global-state, getAccountState likewise when it
\* lacks app-local-state or its key-value; otherwise each returns the
\* decoding of exactly that record set; getAccountState without an address
\* queries the client's configured sender.
C19_StateQueries ==
  \A p \in Procs :
    inv[p].op \in QueryOps =>
      /\ Done(p) /\ inv[p].response # None =>
           IF LacksState(inv[p])
             THEN Rejected(p) /\ inv[p].thrown = Some(NoStateError)
             ELSE /\ Resolved(p)
                  /\ inv[p].ret =
                       Some(decodeState(
                              StateField(inv[p].op, inv[p].response[1])[1][1],
                              inv[p].raw))
      /\ inv[p].request # None =>
           /\ inv[p].op = "getApplicationState" =>
                inv[p].request[1].endpoint = "getApplicationByID"
           /\ inv[p].op = "getAccountState" =>
                /\ inv[p].request[1].endpoint = "accountApplicationInformation"
                /\ inv[p].request[1].address =
                     IF inv[p].address = Undefined THEN sender
                     ELSE inv[p].address

C19_Witness ==
  \E p \in Procs :
    /\ inv[p].op = "getAccountState"
    /\ inv[p].address = Undefined
    /\ inv[p].request # None /\ inv[p].request[1].address = "SENDER"
    /\ Resolved(p)
    /\ inv[p].response # None
    /\ inv[p].response[1].appLocalState[1][1] # <<>>
    /\ ~inv[p].raw
    /\ inv[p].ret[1][DisplayKey(<<107>>, FALSE)] = UintValue(1)

\* the invocation p of addMethodCall succeeds in this step
AddMethodCallSucceeds(p) ==
  /\ inv[p].op = "addMethodCall"
  /\ ~Done(p)
  /\ inv'[p].pc = "done" /\ inv'[p].outcome = "resolved"

\* C20: after k successful addMethodCall invocations on a composer it holds
\* exactly those k method calls in the order they were added (each success
\* appends its call, nothing else changes the composer), and addMethodCall
\* itself never submits anything.
C20_ComposerHoldsCallsInOrder ==
  /\ [](\A p \in Procs :
          inv[p].op = "addMethodCall" =>
            inv[p].calls.submit = 0 /\ inv[p].submitted = None)
  /\ [][/\ atc' # atc => \E p \in Procs : AddMethodCallSucceeds(p)
        /\ \A p \in Procs :
             AddMethodCallSucceeds(p) =>
               /\ inv'[p].txn # None
               /\ inv'[p].txn[1].methodArgs =
                    Some(ProcessArgs(inv[p].method, inv[p].args, <<>>).value)
               /\ atc' = Append(atc, inv'[p].txn[1])
               /\ inv'[p].ret = Some(atc')]_vars

C20_Witness ==
  /\ Len(atc) = 2
  /\ atc[1] # atc[2]
  /\ \E p \in Procs :
       /\ inv[p].op = "addMethodCall"
       /\ Resolved(p)
       /\ inv[p].txn = Some(atc[2])
       /\ inv[p].calls.submit = 0

\* C21: in every lifecycle operation, overrides that contain suggestedParams
\* are used for the transaction and no getTransactionParams request is sent;
\* otherwise exactly one getTransactionParams request is sent for the
\* invocation and its answer is used.
C21_SuggestedParamsSource ==
  \A p \in Procs :
    inv[p].op \in LifecycleOps =>
      /\ inv[p].txParams.suggestedParams # None => inv[p].calls.params = 0
      /\ inv[p].calls.params <= 1
      /\ inv[p].txn # None =>
           IF inv[p].txParams.suggestedParams # None
             THEN inv[p].txn[1].suggestedParams = inv[p].txParams.suggestedParams
             ELSE /\ inv[p].calls.params = 1
                  /\ inv[p].txn[1].suggestedParams = Some("spNetwork")

C21_Witness ==
  \E p \in Procs :
    /\ inv[p].op = "clearState"
    /\ inv[p].txParams.suggestedParams = Some("spCaller")
    /\ inv[p].submitted # None
    /\ inv[p].txn[1].suggestedParams = Some("spCaller")
    /\ inv[p].calls.params = 0

\* C22: create and update never submit a transaction unless both binaries
\* are cached at submission time, and the submitted transaction carries
\* exactly the cached binaries; on a client with an empty cache the compile
\* requests strictly precede the submission.
C22_SubmitOnlyCompiled ==
  /\ [](\A p \in Procs :
          inv[p].op \in CompilingOps /\ inv[p].submitted # None =>
            /\ BothCached
            /\ inv[p].submitted[1].txn.approvalProgram =
                 Some(approvalProgramBinary)
            /\ inv[p].submitted[1].txn.clearProgram = Some(clearProgramBinary)
            /\ inv[p].id = 1 => inv[p].calls.compile = 2)
  /\ [][\A p \in Procs :
          /\ inv[p].op \in CompilingOps
               /\ inv'[p].calls.submit > inv[p].calls.submit => BothCached
          /\ inv[p].submitted # None /\ inv'[p].id = inv[p].id =>
               inv'[p].calls.compile = inv[p].calls.compile]_vars

C22_Witness ==
  \E p \in Procs :
    /\ inv[p].op = "create"
    /\ inv[p].id = 1
    /\ inv[p].calls.compile = 2
    /\ inv[p].submitted # None
    /\ inv[p].submitted[1].txn.approvalProgram = Some(approvalProgramBinary)
    /\ approvalProgramBinary # Undefined

\* a cache slot is empty, or holds the binary and the map of one answer to
\* the compilation of the program teal
SlotOf(bin, map, teal) ==
  \/ bin = Undefined /\ map = Undefined
  \/ bin = CompileResult(teal).bin /\ map = CompileResult(teal).map

\* C23: under any interleaving of concurrent create/update invocations that
\* race before the cache is populated, a set approvalProgramBinary comes
\* with the source map of the same compilation of the approval program
\* (likewise for clear), no slot holds the other program's output, and a
\* populated slot never becomes empty again.
C23_CacheNeverCorrupted ==
  /\ [](/\ SlotOf(approvalProgramBinary, approvalProgramMap,
                  Base64Decode(approvalProgram))
        /\ SlotOf(clearProgramBinary, clearProgramMap,
                  Base64Decode(clearProgram))
        /\ approvalProgramBinary # CompileResult(Base64Decode(clearProgram)).bin
        /\ clearProgramBinary # CompileResult(Base64Decode(approvalProgram)).bin)
  /\ [][/\ approvalProgramBinary # Undefined =>
             approvalProgramBinary' # Undefined
        /\ clearProgramBinary # Undefined =>
             clearProgramBinary' # Undefined]_vars

\* two invocations both compiled and stored both programs
C23_Witness ==
  /\ cacheWrites = [approval |-> 2, clear |-> 2]
  /\ approvalProgramBinary = "approval.bin" /\ approvalProgramMap = "approval.map"
  /\ clearProgramBinary = "clear.bin" /\ clearProgramMap = "clear.map"

\* C24 as stated: over the lifetime of a client, including concurrent
\* create/update invocations, each cache slot is written at most once and at
\* most one compile request per program is sent.
C24_PopulateOnce ==
  /\ cacheWrites.approval <= 1 /\ cacheWrites.clear <= 1
  /\ compileRequests.approval <= 1 /\ compileRequests.clear <= 1

\* the invocation p sends the compile request of a program in this step
SendsApproval(p) ==
  inv[p].pc # "compileApproval" /\ inv'[p].pc = "compileApproval"
SendsClear(p) ==
  inv[p].pc # "compileClear" /\ inv'[p].pc = "compileClear"

\* C24 amended: each invocation sends at most one compile request per
\* program, and only for a program whose slot is empty when it sends; each
\* request is followed by at most one write of that slot.  (Invocations that
\* race before the cache is populated each compile and each write.)
C24_PopulateOncePerInvocation ==
  /\ [](/\ compileRequests.approval <= started
        /\ compileRequests.clear <= started
        /\ cacheWrites.approval <= compileRequests.approval
        /\ cacheWrites.clear <= compileRequests.clear)
  /\ [][\A p \in Procs :
          /\ SendsApproval(p) =>
               /\ approvalProgramBinary = Undefined
               /\ inv[p].pc = "ensurePrograms" /\ inv[p].calls.compile = 0
          /\ SendsClear(p) =>
               /\ clearProgramBinary = Undefined
               /\ inv[p].pc \in {"ensurePrograms", "compileApproval"}
               /\ inv[p].calls.compile <= 1]_vars

C24_Witness ==
  /\ started = 2
  /\ compileRequests.approval = 2
  /\ cacheWrites.approval = 2
  /\ \A p \in Procs : inv[p].calls.compile >= 1

\* the invocation p is waiting for the answer to a compile request
Compiling(p) == inv[p].pc \in {"compileApproval", "compileClear"}

\* C25: a failure of the compile step inside create or update (network
\* error or malformed answer) reaches the caller as the original error, not
\* passed through wrapLogicError, and no transaction is submitted in that
\* invocation.
C25_CompileFailurePropagates ==
  /\ [](\A p \in Procs :
          Compiling(p) => inv[p].submitted = None /\ inv[p].calls.submit = 0)
  /\ [][\A p \in Procs :
          Compiling(p) /\ inv'[p].pc = "done" =>
            /\ inv'[p].outcome = "rejected"
            /\ inv'[p].thrown # None /\ inv'[p].thrown[1] \in CompileErrors
            /\ inv'[p].raised = None
            /\ inv'[p].submitted = None /\ inv'[p].calls.submit = 0]_vars

\* the clear program's compile fails with an error of the logic-failure
\* shape while the approval program's source and map are at hand
C25_Witness ==
  \E p \in Procs :
    /\ inv[p].op = "create"
    /\ Rejected(p)
    /\ inv[p].calls.compile = 2 /\ inv[p].calls.params = 0
    /\ inv[p].thrown = Some(LogicFailure(MaxPc))
    /\ approvalProgramMap # Undefined
    /\ wrapLogicError(LogicFailure(MaxPc)) # LogicFailure(MaxPc)
    /\ inv[p].submitted = None

\* no operation is in flight
Quiescent == \A p \in Procs : inv[p].pc \in {"idle", "done"}

\* C26: after any sequence of completed (successful or failed) lifecycle
\* operations appId and appAddress are consistent: either appId = 0 and
\* appAddress is empty, or appId is a positive integer and appAddress is the
\* address derived from appId.
C26_IdAndAddressConsistent ==
  Quiescent =>
    \/ appId = 0 /\ appAddress = ""
    \/ appId > 0 /\ appAddress = getApplicationAddress(appId)

\* the invocation p of create is rejected in this step
CreateRejected(p) ==
  /\ inv[p].op = "create"
  /\ inv[p].outcome = "pending"
  /\ inv'[p].outcome = "rejected"

\* C27: if create() fails at any step, also after the group was confirmed
\* but the lookup of the confirmed record failed or returned no application
\* index, appId and appAddress are left as they were before the call.
C27_FailedCreateLeavesIdUntouched ==
  [][\A p \in Procs :
       /\ CreateRejected(p) => idVars' = idVars
       /\ inv[p].op = "create" /\ inv[p].outcome = "pending"
            /\ inv'[p].outcome = "pending" => idVars' = idVars]_vars

\* C28: if addMethodCall fails because a required argument is missing, the
\* composer passed to it is left unchanged: it holds exactly what it held
\* before, and no partial method call.
C28_FailedAddLeavesComposer ==
  [][\A p \in Procs :
       inv[p].op = "addMethodCall" /\ inv[p].outcome = "pending"
         /\ inv'[p].outcome # "resolved" => atc' = atc]_vars

C28_Witness ==
  \E p \in Procs :
    /\ inv[p].op = "addMethodCall"
    /\ Rejected(p)
    /\ inv[p].thrown = Some(MissingArgError("x"))
    /\ Len(atc) = 1
    /\ atc[1].methodArgs = Some(<<>>)
    /\ inv[p].method = <<"x", "y">>

\* the approval program is cached and the clear program is not
OnlyApprovalCached ==
  /\ approvalProgramBinary # Undefined /\ approvalProgramMap # Undefined
  /\ clearProgramBinary = Undefined /\ clearProgramMap = Undefined

\* C29: if ensurePrograms compiles the approval program and the clear
\* program's compile then fails, the approval binary and map stay cached and
\* the clear slot stays empty; the next create/update sends a compile
\* request for the clear program only and does not recompile the approval
\* program.
C29_PartialCacheIsKept ==
  [][\A p \in Procs :
       /\ inv[p].pc = "compileClear" /\ inv'[p].outcome = "rejected" =>
            /\ OnlyApprovalCached'
            /\ approvalProgramBinary' = approvalProgramBinary
            /\ approvalProgramMap' = approvalProgramMap
       /\ OnlyApprovalCached /\ inv[p].pc = "ensurePrograms"
            /\ inv'[p] # inv[p] =>
            /\ inv'[p].pc = "compileClear"
            /\ inv'[p].calls.compile = 1
            /\ compileRequests' = [compileRequests EXCEPT !.clear = @ + 1]
            /\ cacheVars' = cacheVars]_vars

C29_Witness ==
  /\ OnlyApprovalCached
  /\ compileRequests = [approval |-> 1, clear |-> 2]
  /\ cacheWrites = [approval |-> 1, clear |-> 0]
  /\ \E p \in Procs :
       /\ inv[p].id = 2
       /\ inv[p].op \in CompilingOps
       /\ inv[p].pc = "compileClear"
       /\ inv[p].calls.compile = 1

\* the text stored for a network
StoredFor(storage, network) == getItem(storage, walletDataKey(network))

\* C30: wallet session data is isolated per network: an operation of a
\* SessionWallet (construct, connect, disconnect, setAcctIdx/save) for one
\* network never modifies the data stored for another, an object made by
\* fromSession holds the data stored for its own network, and
\* setWalletData(A, d) followed by getWalletData(A) returns d.
C30_SessionDataPerNetwork ==
  [][/\ \A n \in Networks :
          StoredFor(sessionStorage', n) # StoredFor(sessionStorage, n) =>
            walletRet'.op # "none" /\ walletRet'.network = n
     /\ walletRet'.op = "fromSession" /\ walletOps' # walletOps =>
          \E w \in DOMAIN sw :
            /\ sw[w] = NoWallet /\ sw'[w] # NoWallet
            /\ sw'[w].network = walletRet'.network
            /\ LET stored == StoredFor(sessionStorage, walletRet'.network)
               IN IF stored = None
                    THEN sw'[w].accounts = <<>> /\ sw'[w].defaultAccount = 0
                    ELSE Stringify(SessionWalletData(
                           sw'[w].walletPreference, sw'[w].accounts,
                           sw'[w].defaultAccount)) = stored[1]
     /\ walletRet.op = "set" /\ walletRet'.op = "get"
          /\ walletRet'.network = walletRet.network =>
            walletRet'.data = walletRet.data]_vars

C30_Witness ==
  /\ walletRet.op = "get"
  /\ walletRet.network = "A"
  /\ walletRet.data =
       SessionWalletData("algo-signer", <<"ACCT1", "ACCT2">>, MaxAcctIdx)
  /\ StoredFor(sessionStorage, "A") = Some(Stringify(walletRet.data))
  /\ StoredFor(sessionStorage, "B") # None
  /\ StoredFor(sessionStorage, "B") # StoredFor(sessionStorage, "A")

\* the step completes a connect, a disconnect or a setAcctIdx of object w
Completes(w) ==
  /\ walletRet'.op \in {"connected", "disconnect", "setAcctIdx"}
  /\ walletRet'.w = w

\* C31: after any completed connect (successful or failed), disconnect or
\* setAcctIdx, the session data stored for the wallet's network equals the
\* in-memory state: its account list is wallet.accounts, its default index
\* is wallet.defaultAccount and its preference is the session's
\* walletPreference; fromSession on the same network then restores the same
\* accounts and index.
C31_StoredEqualsMemory ==
  [][\A w \in DOMAIN sw :
       /\ Completes(w) =>
            LET o == sw'[w]
                d == getWalletData(sessionStorage', o.network)
            IN /\ StoredFor(sessionStorage', o.network) # None
               /\ d.data.acctList = o.accounts
               /\ d.data.defaultAcctIdx = o.defaultAccount
               /\ d.walletPreference = o.walletPreference
       /\ walletRet.op \in {"connected", "disconnect", "setAcctIdx"}
            /\ walletRet.w = w
            /\ walletRet'.op = "fromSession"
            /\ walletRet'.network = walletRet.network =>
              /\ sw'[walletRet'.w].accounts = sw[w].accounts
              /\ sw'[walletRet'.w].defaultAccount = sw[w].defaultAccount]_vars

\* a successful connect of a wallet that was made with a preference and an
\* index
C31_Witness ==
  /\ walletRet = Ran("connected", "A", 1)
  /\ sw[1].accounts = <<"ACCT1">>
  /\ sw[1].defaultAccount = MaxAcctIdx
  /\ sw[1].walletPreference = "algo-signer"
  /\ getWalletData(sessionStorage, "A") =
       SessionWalletData("algo-signer", <<"ACCT1">>, MaxAcctIdx)

\* the step constructs a SessionWallet
Constructs == \E w \in DOMAIN sw : sw[w] = NoWallet /\ sw'[w] # NoWallet

\* C32: constructing a SessionWallet never modifies the shared
\* ImplementedWallets registry: for any wallet preference, recognised or not
\* or absent, the registry's keys and the wallet type bound to each key are
\* the same after construction as before.
C32_ConstructionLeavesRegistry ==
  [][Constructs =>
       /\ DOMAIN ImplementedWallets' = DOMAIN ImplementedWallets
       /\ \A name \in DOMAIN ImplementedWallets :
            ImplementedWallets'[name] = ImplementedWallets[name]]_vars

====
